---- MODULE Spec2Model ----
(***************************************************************************)
(* Model of the deep crawl orchestrator of sitesweep-scanner               *)
(* (src/server.js): normalizeUrl, discoverLinks, deepCrawl, withTimeout    *)
(* and the /harvest route.                                                 *)
(*                                                                         *)
(* Strings the code inspects character by character (error messages) are   *)
(* sequences of one-character strings.  URLs are sequences of tokens:      *)
(*   <<scheme, host, "/", segment, "/", segment, ..., "#", fragment>>      *)
(* so that string equality, concatenation, split('#') and the trailing     *)
(* slash are what they are on the real strings.                            *)
(***************************************************************************)
EXTENDS Integers, Sequences, FiniteSets, TLC

(***************************************************************************)
(* Bounds of the model.                                                    *)
(***************************************************************************)
MaxLinks == 11
MaxFaults == 2
MaxTicks == 4
ScenarioLinks == 15
FairLinks == 4

(***************************************************************************)
(* Program constants.                                                      *)
(***************************************************************************)
HARVEST_TIMEOUT_MS == 45000
MAX_PAGES == 10
CONCURRENT_TABS == 3
SAFETY_MARGIN_MS == 10000
HOME_TIMEOUT_MS == 10000
NAV_TIMEOUT_MS == 8000
IDLE_TIMEOUT_MS == 5000
TickMs == 12000
FineTickMs == 2500

(***************************************************************************)
(* Error messages, as character sequences.                                 *)
(***************************************************************************)
MsgUrlRequired ==
  <<"U","R","L"," ","i","s"," ","r","e","q","u","i","r","e","d">>

MsgInvalidUrl ==
  <<"I","n","v","a","l","i","d"," ","U","R","L","."," ","P","r","o","v","i","d","e"," ","a"," ","v","a","l","i","d"," ","h","t","t","p","(","s",")"," ","U","R","L",".">>

MsgOnlyHttp ==
  <<"O","n","l","y"," ","H","T","T","P","/","H","T","T","P","S"," ","p","r","o","t","o","c","o","l","s"," ","a","r","e"," ","a","l","l","o","w","e","d",".">>

MsgUnreachable ==
  <<"T","a","r","g","e","t"," ","s","i","t","e"," ","u","n","r","e","a","c","h","a","b","l","e"," ","o","r"," ","t","i","m","e","d"," ","o","u","t",".">>

MsgHarvestTimeout ==
  <<"H","a","r","v","e","s","t"," ","t","i","m","e","o","u","t"," ","a","f","t","e","r"," ","4","5"," ","s","e","c","o","n","d","s",".">>

\* A message of the browser driver, for the faults the code does not rename.
MsgPlaywright ==
  <<"T","a","r","g","e","t"," ","p","a","g","e",","," ","c","o","n","t","e","x","t"," ","o","r"," ","b","r","o","w","s","e","r"," ","h","a","s"," ","b","e","e","n"," ","c","l","o","s","e","d">>

SubUrlRequired ==
  <<"U","R","L"," ","i","s"," ","r","e","q","u","i","r","e","d">>

SubInvalidUrl ==
  <<"I","n","v","a","l","i","d"," ","U","R","L">>

SubOnlyHttp ==
  <<"O","n","l","y"," ","H","T","T","P","/","H","T","T","P","S"," ","p","r","o","t","o","c","o","l","s"," ","a","r","e"," ","a","l","l","o","w","e","d",".">>

SubUnreachable ==
  <<"u","n","r","e","a","c","h","a","b","l","e">>

SubTimeout ==
  <<"t","i","m","e","o","u","t">>

\* String.prototype.includes
Includes(s, sub) ==
  \E k \in 0..(Len(s) - Len(sub)) : SubSeq(s, k + 1, k + Len(sub)) = sub

(***************************************************************************)
(* URLs.                                                                   *)
(***************************************************************************)
Schemes == {"https://", "http://"}
OtherSchemes == {"mailto:", "tel:", "javascript:", "data:"}
Hosts == {"x.com", "www.x.com", "y.com", "www.y.com", "ftp", "facebook.com"}
\* A scheme the service is not meant to accept, written with its "//".
FtpScheme == "ftp://"
DeniedExts == {".pdf", ".jpg", ".jpeg", ".png", ".gif", ".zip", ".rar", ".doc", ".docx"}

FirstIndex(s, t) ==
  IF \E n \in 1..Len(s) : s[n] = t
  THEN CHOOSE n \in 1..Len(s) : s[n] = t /\ \A m \in 1..(n - 1) : s[m] # t
  ELSE 0

LastIndex(s, t) ==
  IF \E n \in 1..Len(s) : s[n] = t
  THEN CHOOSE n \in 1..Len(s) : s[n] = t /\ \A m \in (n + 1)..Len(s) : s[m] # t
  ELSE 0

\* String.prototype.trim
RECURSIVE Trim(_)
Trim(s) ==
  IF s = <<>> THEN s
  ELSE IF Head(s) = " " THEN Trim(Tail(s))
  ELSE IF s[Len(s)] = " " THEN Trim(SubSeq(s, 1, Len(s) - 1))
  ELSE s

\* new URL(s) for an absolute s: the serialised href and its parts.
ParseUrl(s) ==
  IF Len(s) >= 2 /\ s[1] \in Schemes /\ s[2] \in Hosts
     /\ (Len(s) >= 3 => s[3] \in {"/", "#"})
  THEN [ok |-> TRUE,
        href |-> IF Len(s) = 2 THEN s \o <<"/">>
                 ELSE IF s[3] = "#" THEN <<s[1], s[2], "/">> \o SubSeq(s, 3, Len(s))
                 ELSE s,
        protocol |-> IF s[1] = "https://" THEN "https:" ELSE "http:",
        hostname |-> s[2]]
  ELSE IF Len(s) >= 2 /\ s[1] \in Schemes /\ s[2] = FtpScheme
  THEN \* "https://ftp://h": the authority is "ftp:" (host ftp, empty port)
       \* and the path is "//h"
       [ok |-> TRUE,
        href |-> <<s[1], "ftp", "/", "/">> \o SubSeq(s, 3, Len(s)),
        protocol |-> IF s[1] = "https://" THEN "https:" ELSE "http:",
        hostname |-> "ftp"]
  ELSE IF Len(s) >= 2 /\ s[1] = FtpScheme /\ s[2] \in Hosts
  THEN [ok |-> TRUE, href |-> s, protocol |-> "ftp:", hostname |-> s[2]]
  ELSE IF Len(s) >= 1 /\ s[1] \in OtherSchemes
  THEN [ok |-> TRUE, href |-> s, protocol |-> s[1], hostname |-> ""]
  ELSE [ok |-> FALSE, href |-> <<>>, protocol |-> "", hostname |-> ""]

StripFragment(u) ==
  IF FirstIndex(u, "#") = 0 THEN u ELSE SubSeq(u, 1, FirstIndex(u, "#") - 1)

\* new URL(href, base): resolution of an href attribute against a page URL.
ResolveUrl(href, base) ==
  IF href = <<>> THEN ParseUrl(base)
  ELSE IF Head(href) \in Schemes \cup OtherSchemes \cup {FtpScheme} THEN ParseUrl(href)
  ELSE IF Head(href) = "/" THEN ParseUrl(<<base[1], base[2]>> \o href)
  ELSE IF Head(href) = "#" THEN ParseUrl(StripFragment(base) \o href)
  ELSE ParseUrl(SubSeq(StripFragment(base), 1, LastIndex(StripFragment(base), "/")) \o href)

normalizeUrl(rawUrl) ==
  LET trimmed == Trim(rawUrl)
      withProtocol == IF trimmed # <<>> /\ Head(trimmed) \in Schemes
                      THEN trimmed ELSE <<"https://">> \o trimmed
      url == ParseUrl(withProtocol)
  IN  IF trimmed = <<>>
      THEN [ok |-> FALSE, err |-> MsgUrlRequired, href |-> <<>>, hostname |-> ""]
      ELSE IF ~url.ok
      THEN [ok |-> FALSE, err |-> MsgInvalidUrl, href |-> <<>>, hostname |-> ""]
      ELSE IF url.protocol \notin {"http:", "https:"}
      THEN [ok |-> FALSE, err |-> MsgOnlyHttp, href |-> <<>>, hostname |-> ""]
      ELSE [ok |-> TRUE, err |-> <<>>, href |-> url.href, hostname |-> url.hostname]

(***************************************************************************)
(* discoverLinks                                                           *)
(***************************************************************************)
SkipHref(href) ==
  \/ href = <<>>
  \/ Head(href) \in {"#", "javascript:", "mailto:", "tel:"}

\* Variant: the fragment is kept, only a trailing slash is removed.
CleanUrlKeepsFragment(absoluteUrl) ==
  IF absoluteUrl # <<>> /\ absoluteUrl[Len(absoluteUrl)] = "/"
  THEN SubSeq(absoluteUrl, 1, Len(absoluteUrl) - 1)
  ELSE absoluteUrl

\* absoluteUrl.split('#')[0].replace(/\/$/, '')
CleanUrl(absoluteUrl) ==
  LET noHash == StripFragment(absoluteUrl)
  IN  IF noHash # <<>> /\ noHash[Len(noHash)] = "/"
      THEN SubSeq(noHash, 1, Len(noHash) - 1)
      ELSE noHash

\* The flag i of the regular expression: an extension in capitals matches.
ToLower(t) == IF t = ".PDF" THEN ".pdf" ELSE t

\* /\.(pdf|jpg|jpeg|png|gif|zip|rar|doc|docx)$/i  (the extension is a token)
HasDeniedExt(cleanUrl) ==
  cleanUrl # <<>> /\ ToLower(cleanUrl[Len(cleanUrl)]) \in DeniedExts

InSeq(s, e) == \E n \in 1..Len(s) : s[n] = e

\* Set.prototype.add on an insertion-ordered set
SetAdd(s, e) == IF InSeq(s, e) THEN s ELSE Append(s, e)

RECURSIVE DiscoverFrom(_, _, _)
DiscoverFrom(anchors, currentPageUrl, links) ==
  IF anchors = <<>> THEN links
  ELSE LET href == Head(anchors)
           abs == ResolveUrl(href, currentPageUrl)
           internal == abs.ok /\ abs.hostname = ParseUrl(currentPageUrl).hostname
           cleanUrl == CleanUrl(abs.href)
       IN  CHOOSE all \in
             { DiscoverFrom(Tail(anchors), currentPageUrl, added) :
                 added \in { IF ~SkipHref(href) /\ internal /\ ~HasDeniedExt(cleanUrl)
                             THEN SetAdd(links, cleanUrl)
                             ELSE links } } : TRUE

discoverLinks(anchors, currentPageUrl) == DiscoverFrom(anchors, currentPageUrl, <<>>)

(***************************************************************************)
(* extractSocials                                                          *)
(***************************************************************************)
\* Host tokens whose text ends in the pattern of a platform: "www.x.com/"
\* includes "x.com/".
FacebookHosts == {"facebook.com"}
TwitterHosts == {"x.com", "www.x.com"}

\* href.includes(host + '/') for one of the hosts
IncludesHost(href, hosts) ==
  \E n \in 1..(Len(href) - 1) : href[n] \in hosts /\ href[n + 1] = "/"

\* href.includes('/sharer')
IncludesSharer(href) ==
  \E n \in 1..(Len(href) - 1) : href[n] = "/" /\ href[n + 1] = "sharer"

\* The if / else-if chain of extractSocials; "" when no branch matches.
PlatformOf(href) ==
  IF IncludesHost(href, FacebookHosts) /\ ~IncludesSharer(href) THEN "Facebook"
  ELSE IF IncludesHost(href, TwitterHosts) THEN "Twitter"
  ELSE ""

RECURSIVE SocialsFrom(_, _)
SocialsFrom(anchors, currentPageUrl) ==
  IF anchors = <<>> THEN <<>>
  ELSE LET hrefAttr == Head(anchors)
           abs == ResolveUrl(hrefAttr, currentPageUrl)
           rest == SocialsFrom(Tail(anchors), currentPageUrl)
       IN  IF hrefAttr = <<>> \/ ~abs.ok \/ PlatformOf(abs.href) = "" THEN rest
           ELSE <<[platform |-> PlatformOf(abs.href), url |-> abs.href]>> \o rest

\* socials.filter(s => { if (seen.has(s.url)) return false; seen.add(s.url); return true; })
RECURSIVE DedupByUrl(_, _)
DedupByUrl(list, seen) ==
  IF list = <<>> THEN <<>>
  ELSE IF Head(list).url \in seen THEN DedupByUrl(Tail(list), seen)
  ELSE <<Head(list)>> \o DedupByUrl(Tail(list), seen \cup {Head(list).url})

extractSocials(anchors, currentPageUrl) ==
  DedupByUrl(SocialsFrom(anchors, currentPageUrl), {})

(***************************************************************************)
(* deepCrawl, step 2: the visit queue                                      *)
(***************************************************************************)
RECURSIVE Dedup(_, _)
Dedup(s, acc) ==
  IF s = <<>> THEN acc
  ELSE CHOOSE all \in { Dedup(Tail(s), added) : added \in { SetAdd(acc, Head(s)) } } : TRUE

RECURSIVE FilterSeq(_, _)
FilterSeq(s, banned) ==
  IF s = <<>> THEN <<>>
  ELSE IF Head(s) \in banned THEN FilterSeq(Tail(s), banned)
  ELSE <<Head(s)>> \o FilterSeq(Tail(s), banned)

Min(a, b) == IF a < b THEN a ELSE b

\* Array.prototype.slice(from, to), 0-based, end excluded
Slice(s, from, to) == SubSeq(s, from + 1, Min(to, Len(s)))

\* Variant: the queue is not truncated to MAX_PAGES.
UniqueLinksNoLimit(links, base) ==
  FilterSeq(Dedup(links, <<>>), {base, base \o <<"/">>})

\* [...new Set(links)].filter(l => l !== baseUrl && l !== baseUrl + '/').slice(0, MAX_PAGES)
UniqueLinks(links, base) ==
  Slice(FilterSeq(Dedup(links, <<>>), {base, base \o <<"/">>}), 0, MAX_PAGES)

(***************************************************************************)
(* extractPageContent: the images of a page                                *)
(***************************************************************************)
\* The images of a page of the site: the raw URL of each (src, data-src, an
\* entry of srcset, a background) and its size.
ImgMixed ==
  << [url |-> <<"https://", "x.com", "/", "i", ".png">>, width |-> 100, height |-> 100],
     [url |-> <<"/", "img", "/", "a", ".jpg">>, width |-> 0, height |-> 0],
     [url |-> <<"data:", "b64">>, width |-> 100, height |-> 100],
     [url |-> <<"/", "logo", ".svg">>, width |-> 100, height |-> 100],
     [url |-> <<" ", "/", "img", "/", "a", ".jpg">>, width |-> 200, height |-> 200],
     [url |-> <<"/", "t", ".gif">>, width |-> 1, height |-> 1],
     [url |-> <<"http://", "[bad">>, width |-> 0, height |-> 0],
     [url |-> <<FtpScheme, "[bad">>, width |-> 0, height |-> 0],
     [url |-> <<"/", "hero", ".jpg">>, width |-> 200, height |-> 100] >>

ImgRelative ==
  << [url |-> <<"b", ".jpg">>, width |-> 100, height |-> 100],
     [url |-> <<"mailto:", "m">>, width |-> 0, height |-> 0],
     [url |-> <<"http://", "y.com", "/", "c", ".png">>, width |-> 300, height |-> 100] >>

\* A page with a single image.
ImgSingle ==
  << [url |-> <<"/", "hero", ".jpg">>, width |-> 200, height |-> 100] >>

\* The seed of a site has the mixed images, its other pages the relative
\* ones; the pages of www.x.com hold one image each.
ImagesOf(currentPageUrl) ==
  IF Len(currentPageUrl) <= 3 THEN ImgMixed
  ELSE IF currentPageUrl[2] = "www.x.com" THEN ImgSingle
  ELSE ImgRelative

\* url.startsWith('http://') || url.startsWith('https://')
StartsWithHttp(url) == url # <<>> /\ Head(url) \in Schemes

\* resolveUrl of the page context: the href, or the argument when new URL throws
resolveUrl(relativeUrl, currentPageUrl) ==
  LET absoluteUrl == ResolveUrl(relativeUrl, currentPageUrl)
  IN  IF absoluteUrl.ok THEN absoluteUrl.href ELSE relativeUrl

addImage(images, img, currentPageUrl) ==
  LET trimmed == Trim(img.url)
      url == IF StartsWithHttp(trimmed) THEN trimmed
             ELSE resolveUrl(trimmed, currentPageUrl)
  IN  IF img.url = <<>> THEN images
      ELSE IF ~StartsWithHttp(url) THEN images
      ELSE IF Head(url) = "data:" \/ url[Len(url)] = ".svg" THEN images
      ELSE IF \E n \in 1..Len(images) : images[n].url = url THEN images
      ELSE IF img.width > 0 /\ img.height > 0 /\ (img.width < 50 \/ img.height < 50)
      THEN images
      ELSE Append(images, [url |-> url, width |-> img.width, height |-> img.height,
                           area |-> img.width * img.height])

RECURSIVE AddImages(_, _, _)
AddImages(raw, images, currentPageUrl) ==
  IF raw = <<>> THEN images
  ELSE AddImages(Tail(raw), addImage(images, Head(raw), currentPageUrl), currentPageUrl)

RECURSIVE HttpImages(_)
HttpImages(images) ==
  IF images = <<>> THEN <<>>
  ELSE IF StartsWithHttp(Head(images).url) THEN <<Head(images)>> \o HttpImages(Tail(images))
  ELSE HttpImages(Tail(images))

\* Array.prototype.sort((a, b) => b.area - a.area): stable, largest area first
RECURSIVE InsertByArea(_, _)
InsertByArea(sorted, img) ==
  IF sorted = <<>> THEN <<img>>
  ELSE IF Head(sorted).area >= img.area THEN <<Head(sorted)>> \o InsertByArea(Tail(sorted), img)
  ELSE <<img>> \o sorted

RECURSIVE SortByArea(_, _)
SortByArea(images, sorted) ==
  IF images = <<>> THEN sorted
  ELSE SortByArea(Tail(images), InsertByArea(sorted, Head(images)))

\* images.filter(...).sort(...).slice(0, 10).map(...)
sortedImages(currentPageUrl) ==
  CHOOSE mapped \in
    { [n \in 1..Len(top) |-> [url |-> top[n].url, width |-> top[n].width,
                              height |-> top[n].height]] :
        top \in { Slice(SortByArea(filtered, <<>>), 0, 10) :
                   filtered \in { HttpImages(images) :
                     images \in { AddImages(ImagesOf(currentPageUrl), <<>>,
                                            currentPageUrl) } } } } : TRUE

\* Addresses and numbers found in the text and in the mailto: / tel: anchors
\* of a page, in document order: every page repeats the contact address, and
\* each page but the root names one of its own.
EmailsOf(currentPageUrl) ==
  IF Len(currentPageUrl) <= 3
  THEN <<"info@x.com", "sales@x.com", "info@x.com">>
  ELSE <<"info@x.com", currentPageUrl[Len(currentPageUrl)] \o "@x.com", "info@x.com">>

PhonesOf(currentPageUrl) ==
  IF Len(currentPageUrl) <= 3
  THEN <<"+49 30 1234567", "030 1234567", "+49 30 1234567">>
  ELSE <<"030 1234567">>

\* What extractPageContent returns for a page.
PageContent(currentPageUrl) ==
  [url |-> currentPageUrl, images |-> sortedImages(currentPageUrl),
   emails |-> Dedup(EmailsOf(currentPageUrl), <<>>),
   phones |-> Dedup(PhonesOf(currentPageUrl), <<>>)]

\* Variant: the report keeps the https:// URLs only.
RECURSIVE ReportImagesHttpsOnly(_)
ReportImagesHttpsOnly(images) ==
  IF images = <<>> THEN <<>>
  ELSE IF Head(images).url # <<>> /\ Head(Head(images).url) = "https://"
  THEN <<Head(images).url>> \o ReportImagesHttpsOnly(Tail(images))
  ELSE ReportImagesHttpsOnly(Tail(images))

\* page.images.map(img => img.url).filter(url => url && (url.startsWith(...)))
RECURSIVE ReportImages(_)
ReportImages(images) ==
  IF images = <<>> THEN <<>>
  ELSE IF Head(images).url # <<>> /\ StartsWithHttp(Head(images).url)
  THEN <<Head(images).url>> \o ReportImages(Tail(images))
  ELSE ReportImages(Tail(images))

(***************************************************************************)
(* /harvest: status of an error response                                   *)
(***************************************************************************)
IsUserError(message) ==
  \/ Includes(message, SubUrlRequired)
  \/ Includes(message, SubInvalidUrl)
  \/ Includes(message, SubOnlyHttp)

StatusOf(message) ==
  IF IsUserError(message) THEN 400
  ELSE IF Includes(message, SubUnreachable) \/ Includes(message, SubTimeout) THEN 502
  ELSE 500

(***************************************************************************)
(* Inputs: the raw URL of the request and the anchors of the seed page.    *)
(***************************************************************************)
RawUrls ==
  { <<>>,
    <<" ">>,
    <<"https://">>,
    <<" ", "x.com", " ">>,
    <<"http://", "x.com", "/", "a">> }

\* Anchors of a page that mixes every kind of href the discoverer tells apart.
DomMixed ==
  << <<"/">>,
     <<"/", "a">>,
     <<"/", "a", "/">>,
     <<"/", "a", "#", "f">>,
     <<>>,
     <<"#", "top">>,
     <<"mailto:", "m">>,
     <<"https://", "y.com", "/", "b">>,
     <<"/", "f", ".pdf">>,
     <<"/", "home">>,
     <<"https://", "x.com", "/", "c", "/">>,
     <<"https://", "facebook.com", "/", "acme">>,
     <<"https://", "facebook.com", "/", "sharer">>,
     <<"https://", "facebook.com", "/", "acme">> >>

\* Anchors /p1 .. /pn
DomMany(n) == [k \in 1..n |-> <<"/", "p" \o ToString(k)>>]

\* The requests: every raw URL against the mixed page, and the bare domain
\* against a page without links and a page with more links than MAX_PAGES.
Requests ==
  {<<r, DomMixed>> : r \in RawUrls}
    \cup {<<<<" ", "x.com", " ">>, DomMany(n)>> : n \in {0, MaxLinks}}

\* Raw URLs for the seed phase alone: also another scheme, a host whose server
\* redirects to another host, and a path with a trailing slash.
SeedRawUrls ==
  RawUrls \cup { <<FtpScheme, "x.com">>,
                 <<"mailto:", "m">>,
                 <<"y.com">>,
                 <<"x.com", "/", "a", "/">> }

\* A page with ScenarioLinks internal links, two external links and three
\* links to pdf files, the external and pdf links first.
DomScenario ==
  << <<"https://", "y.com", "/", "b">>,
     <<"https://", "www.x.com", "/", "c">>,
     <<"/", "f", ".pdf">>,
     <<"/", "g", ".PDF">>,
     <<"/", "h", ".pdf", "#", "p2">> >> \o DomMany(ScenarioLinks)

\* Anchors that differ by fragment and by trailing slashes.
DomSlashes ==
  << <<"/", "a", "/", "/">>,
     <<"/", "a", "/">>,
     <<"/", "a">>,
     <<"/", "a", "/", "#", "frag">>,
     <<"http://", "x.com", "/", "a", "/", "#", "frag">>,
     <<"http://", "x.com", "/", "a">>,
     <<"/", "b", "/", "#", "frag">>,
     <<"/", "b">> >>

SeedDoms == {DomMixed, DomScenario, DomSlashes, DomMany(MaxLinks)}

SeedRequests == SeedRawUrls \X SeedDoms

\* The URL the seed navigation ends on: the requested one, or a redirect
\* target; the server of y.com redirects to its www host.
FinalUrls(requested) ==
  {requested, <<requested[1], requested[2], "/", "home">>}
    \cup (IF requested[2] = "y.com" THEN {<<requested[1], "www.y.com", "/">>} ELSE {})

(***************************************************************************)
(* State                                                                   *)
(***************************************************************************)
VARIABLES
  rawUrl,            \* req.body.url
  dom,               \* anchors of the seed page
  socials,           \* result of extractSocials(homePage)
  tickMs,            \* length of one tick of the clock, in ms
  opAge,             \* ticks spent so far in the awaited navigation or wait
  pc,                \* position of deepCrawl
  baseUrl,           \* targetUrl.href
  domain,            \* targetUrl.hostname
  browser,           \* "none", "open", "closed"
  browserCloseCalls, \* calls of browser.close()
  homeTab,           \* "none", "open", "closed"
  pageUrl,           \* window.location.href of the seed page
  homeContent,       \* <<>> or <<PageContent>>
  discoveredLinks,
  uniqueLinks,
  i,                 \* loop index of the batch loop
  vis,               \* the visits of the current batch
  subpageContents,
  outcome,           \* how deepCrawl ends: return (report) or throw (message)
  now,               \* clock, in ticks of TickMs
  timer,             \* timer of withTimeout: "none", "armed", "fired", "cleared"
  response,          \* response of /harvest; status 0: not sent yet
  faults,            \* faults injected so far
  tabsOpened,        \* subpage tabs opened so far
  okLinks,           \* links whose visit produced a content record
  failedLinks,       \* links whose navigation or extraction failed
  newPageFailures,   \* subpage visits that could not open their tab
  failedFrom,        \* position at which deepCrawl threw, "" if it did not
  batchesStarted,    \* batches started so far
  deadlineStop,      \* TRUE once the batch loop stopped on the deadline check
  openTabs           \* subpage tabs opened and not yet through their close step

vars ==
  <<rawUrl, dom, socials, tickMs, opAge, pc, baseUrl, domain, browser, browserCloseCalls, homeTab,
    pageUrl, homeContent, discoveredLinks, uniqueLinks, i, vis,
    subpageContents, outcome, now, timer, response, faults, tabsOpened,
    okLinks, failedLinks, newPageFailures, failedFrom, batchesStarted, deadlineStop,
    openTabs>>

Slots == 1..CONCURRENT_TABS

NoVisit == [pc |-> "off", link |-> <<>>, result |-> <<>>]

NoOutcome == [kind |-> "none", msg |-> <<>>, report |-> <<>>]

NoResponse == [status |-> 0, error |-> <<>>, result |-> <<>>]

\* Date.now() - startTime
Elapsed == now * tickMs

\* Index 0 is deepCrawl itself, 1..CONCURRENT_TABS are the visits of a batch.
Flows == 0..CONCURRENT_TABS

NoOp == <<"", <<>>>>

NoAge == [f \in Flows |-> [op |-> NoOp, age |-> 0]]

CanFault == faults < MaxFaults

Init ==
  /\ \E request \in Requests :
       /\ rawUrl = request[1]
       /\ dom = request[2]
  /\ socials = <<>>
  /\ tickMs = TickMs
  /\ opAge = NoAge
  /\ pc = "init"
  /\ baseUrl = <<>>
  /\ domain = ""
  /\ browser = "none"
  /\ browserCloseCalls = 0
  /\ homeTab = "none"
  /\ pageUrl = <<>>
  /\ homeContent = <<>>
  /\ discoveredLinks = <<>>
  /\ uniqueLinks = <<>>
  /\ i = 0
  /\ vis = [k \in Slots |-> NoVisit]
  /\ subpageContents = <<>>
  /\ outcome = NoOutcome
  /\ now = 0
  /\ timer = "none"
  /\ response = NoResponse
  /\ faults = 0
  /\ tabsOpened = 0
  /\ okLinks = {}
  /\ failedLinks = {}
  /\ newPageFailures = 0
  /\ failedFrom = ""
  /\ batchesStarted = 0
  /\ deadlineStop = FALSE
  /\ openTabs = 0

\* Variant: a throw leaves deepCrawl without closing the browser.
ThrowSkipsFinally(message) ==
  /\ outcome' = [kind |-> "throw", msg |-> message, report |-> <<>>]
  /\ failedFrom' = pc
  /\ pc' = "closing"

\* A throw inside the outer try of deepCrawl: control goes to the finally block.
Throw(message) ==
  /\ outcome' = [kind |-> "throw", msg |-> message, report |-> <<>>]
  /\ failedFrom' = pc
  /\ pc' = "finally"

\* /harvest calls deepCrawl, which runs up to chromium.launch; withTimeout arms its timer.
HarvestStart ==
  /\ pc = "init"
  /\ timer' = "armed"
  /\ LET targetUrl == normalizeUrl(rawUrl)
     IN  IF targetUrl.ok
         THEN /\ baseUrl' = targetUrl.href
              /\ domain' = targetUrl.hostname
              /\ pc' = "launch"
              /\ UNCHANGED <<outcome, failedFrom>>
         ELSE /\ Throw(targetUrl.err)
              /\ UNCHANGED <<baseUrl, domain>>
  /\ UNCHANGED <<rawUrl, dom, tickMs, opAge, socials, batchesStarted, deadlineStop, openTabs,
                 browser, browserCloseCalls, homeTab, pageUrl,
                 homeContent, discoveredLinks, uniqueLinks, i, vis,
                 subpageContents, now, response, faults, tabsOpened,
                 okLinks, failedLinks, newPageFailures>>

\* browser = await chromium.launch(...)
Launch ==
  /\ pc = "launch"
  /\ \/ /\ browser' = "open"
        /\ pc' = "newContext"
        /\ UNCHANGED <<outcome, failedFrom, faults>>
     \/ /\ CanFault
        /\ faults' = faults + 1
        /\ Throw(MsgPlaywright)
        /\ UNCHANGED browser
  /\ UNCHANGED <<rawUrl, dom, tickMs, opAge, socials, batchesStarted, deadlineStop, openTabs,
                 baseUrl, domain, browserCloseCalls, homeTab,
                 pageUrl, homeContent, discoveredLinks, uniqueLinks, i, vis,
                 subpageContents, now, timer, response, tabsOpened,
                 okLinks, failedLinks, newPageFailures>>

\* const context = await browser.newContext(...)
NewContext ==
  /\ pc = "newContext"
  /\ \/ /\ pc' = "homeNewPage"
        /\ UNCHANGED <<outcome, failedFrom, faults>>
     \/ /\ CanFault
        /\ faults' = faults + 1
        /\ Throw(MsgPlaywright)
  /\ UNCHANGED <<rawUrl, dom, tickMs, opAge, socials, batchesStarted, deadlineStop, openTabs,
                 baseUrl, domain, browser, browserCloseCalls,
                 homeTab, pageUrl, homeContent, discoveredLinks, uniqueLinks,
                 i, vis, subpageContents, now, timer, response, tabsOpened,
                 okLinks, failedLinks, newPageFailures>>

\* const homePage = await context.newPage()
HomeNewPage ==
  /\ pc = "homeNewPage"
  /\ \/ /\ homeTab' = "open"
        /\ pc' = "homeGoto"
        /\ UNCHANGED <<outcome, failedFrom, faults>>
     \/ /\ CanFault
        /\ faults' = faults + 1
        /\ Throw(MsgPlaywright)
        /\ UNCHANGED homeTab
  /\ UNCHANGED <<rawUrl, dom, tickMs, opAge, socials, batchesStarted, deadlineStop, openTabs,
                 baseUrl, domain, browser, browserCloseCalls,
                 pageUrl, homeContent, discoveredLinks, uniqueLinks, i, vis,
                 subpageContents, now, timer, response, tabsOpened,
                 okLinks, failedLinks, newPageFailures>>

\* Variant: the navigation error of the seed is rethrown as it is.
HomeGotoNoRename ==
  /\ pc = "homeGoto"
  /\ \/ /\ \E final \in FinalUrls(baseUrl) : pageUrl' = final
        /\ pc' = "homeIdle"
        /\ UNCHANGED <<outcome, failedFrom, faults>>
     \/ /\ CanFault
        /\ faults' = faults + 1
        /\ Throw(MsgPlaywright)
        /\ UNCHANGED pageUrl
  /\ UNCHANGED <<rawUrl, dom, tickMs, opAge, socials, batchesStarted, deadlineStop, openTabs,
                 baseUrl, domain,
                 browser, browserCloseCalls, homeTab, homeContent,
                 discoveredLinks, uniqueLinks, i, vis, subpageContents, now,
                 timer, response, tabsOpened, okLinks, failedLinks,
                 newPageFailures>>

\* await homePage.goto(baseUrl, { timeout: 10000 }); a failure is renamed.
HomeGoto ==
  /\ pc = "homeGoto"
  /\ \/ /\ \E final \in FinalUrls(baseUrl) : pageUrl' = final
        /\ pc' = "homeIdle"
        /\ UNCHANGED <<outcome, failedFrom, faults>>
     \/ /\ CanFault
        /\ faults' = faults + 1
        /\ Throw(MsgUnreachable)
        /\ UNCHANGED pageUrl
  /\ UNCHANGED <<rawUrl, dom, tickMs, opAge, socials, batchesStarted, deadlineStop, openTabs,
                 baseUrl, domain, browser, browserCloseCalls,
                 homeTab, homeContent, discoveredLinks, uniqueLinks, i, vis,
                 subpageContents, now, timer, response, tabsOpened,
                 okLinks, failedLinks, newPageFailures>>

\* await homePage.waitForLoadState('networkidle', ...).catch(() => {})
HomeIdle ==
  /\ pc = "homeIdle"
  /\ \/ faults' = faults
     \/ /\ CanFault
        /\ faults' = faults + 1
  /\ pc' = "homeExtract"
  /\ UNCHANGED <<rawUrl, dom, tickMs, opAge, socials, batchesStarted, deadlineStop, openTabs,
                 baseUrl, domain, browser, browserCloseCalls,
                 homeTab, pageUrl, homeContent, discoveredLinks, uniqueLinks,
                 i, vis, subpageContents, outcome, now, timer, response,
                 tabsOpened, okLinks,
                 failedLinks, newPageFailures, failedFrom>>

\* const homeContent = await extractPageContent(homePage, baseUrl)
HomeExtract ==
  /\ pc = "homeExtract"
  /\ \/ /\ homeContent' = << PageContent(pageUrl) >>
        /\ pc' = "discover"
        /\ UNCHANGED <<outcome, failedFrom, faults>>
     \/ /\ CanFault
        /\ faults' = faults + 1
        /\ Throw(MsgPlaywright)
        /\ UNCHANGED homeContent
  /\ UNCHANGED <<rawUrl, dom, tickMs, opAge, socials, batchesStarted, deadlineStop, openTabs,
                 baseUrl, domain, browser, browserCloseCalls,
                 homeTab, pageUrl, discoveredLinks, uniqueLinks, i, vis,
                 subpageContents, now, timer, response, tabsOpened,
                 okLinks, failedLinks, newPageFailures>>

\* const discoveredLinks = await discoverLinks(homePage, baseUrl)
Discover ==
  /\ pc = "discover"
  /\ \/ /\ discoveredLinks' = discoverLinks(dom, pageUrl)
        /\ pc' = "socials"
        /\ UNCHANGED <<outcome, failedFrom, faults>>
     \/ /\ CanFault
        /\ faults' = faults + 1
        /\ Throw(MsgPlaywright)
        /\ UNCHANGED discoveredLinks
  /\ UNCHANGED <<rawUrl, dom, tickMs, opAge, socials, batchesStarted, deadlineStop, openTabs,
                 baseUrl, domain, browser, browserCloseCalls,
                 homeTab, pageUrl, homeContent, uniqueLinks, i, vis,
                 subpageContents, now, timer, response, tabsOpened,
                 okLinks, failedLinks, newPageFailures>>

\* const socials = await extractSocials(homePage)
Socials ==
  /\ pc = "socials"
  /\ \/ /\ socials' = extractSocials(dom, pageUrl)
        /\ pc' = "homeClose"
        /\ UNCHANGED <<outcome, failedFrom, faults>>
     \/ /\ CanFault
        /\ faults' = faults + 1
        /\ Throw(MsgPlaywright)
        /\ UNCHANGED socials
  /\ UNCHANGED <<rawUrl, dom, tickMs, opAge, batchesStarted, deadlineStop, openTabs,
                 baseUrl, domain, browser, browserCloseCalls,
                 homeTab, pageUrl, homeContent, discoveredLinks, uniqueLinks,
                 i, vis, subpageContents, now, timer, response, tabsOpened,
                 okLinks, failedLinks, newPageFailures>>

\* Variant: the seed tab is left open when the visit queue is computed.
HomeCloseLeak ==
  /\ pc = "homeClose"
  /\ \/ /\ uniqueLinks' = UniqueLinks(discoveredLinks, baseUrl)
        /\ pc' = "batchCheck"
        /\ UNCHANGED <<outcome, failedFrom, faults>>
     \/ /\ CanFault
        /\ faults' = faults + 1
        /\ Throw(MsgPlaywright)
        /\ UNCHANGED uniqueLinks
  /\ UNCHANGED <<rawUrl, dom, tickMs, opAge, socials, batchesStarted, deadlineStop, openTabs,
                 baseUrl, domain, browser, browserCloseCalls, homeTab,
                 pageUrl, homeContent, discoveredLinks, i, vis,
                 subpageContents, now, timer, response, tabsOpened,
                 okLinks, failedLinks, newPageFailures>>

\* await homePage.close(); then step 2 computes the visit queue.
HomeClose ==
  /\ pc = "homeClose"
  /\ \/ /\ homeTab' = "closed"
        /\ uniqueLinks' = UniqueLinks(discoveredLinks, baseUrl)
        /\ pc' = "batchCheck"
        /\ UNCHANGED <<outcome, failedFrom, faults>>
     \/ /\ CanFault
        /\ faults' = faults + 1
        /\ Throw(MsgPlaywright)
        /\ UNCHANGED <<homeTab, uniqueLinks>>
  /\ UNCHANGED <<rawUrl, dom, tickMs, opAge, socials, batchesStarted, deadlineStop, openTabs,
                 baseUrl, domain, browser, browserCloseCalls,
                 pageUrl, homeContent, discoveredLinks, i, vis,
                 subpageContents, now, timer, response, tabsOpened,
                 okLinks, failedLinks, newPageFailures>>

(***************************************************************************)
(* deepCrawl, step 3: the batches                                          *)
(***************************************************************************)
\* Variant: the deadline is compared without the safety margin.
DeadlineExceededNoMargin == Elapsed > HARVEST_TIMEOUT_MS

\* Variant: the deadline is not checked before the first batch.
DeadlineExceededAfterFirst ==
  i > 0 /\ Elapsed > HARVEST_TIMEOUT_MS - SAFETY_MARGIN_MS

\* if (elapsed > HARVEST_TIMEOUT_MS - 10000) break
DeadlineExceeded == Elapsed > HARVEST_TIMEOUT_MS - SAFETY_MARGIN_MS

\* Head of the for loop: loop condition, deadline check, start of a batch.
\* batch.map(async ...) runs every visit up to its first await (context.newPage).
BatchCheck ==
  /\ pc = "batchCheck"
  /\ IF i >= Len(uniqueLinks)
     THEN /\ pc' = "aggregate"
          /\ UNCHANGED <<vis, batchesStarted, deadlineStop>>
     ELSE IF DeadlineExceeded
     THEN /\ pc' = "aggregate"
          /\ deadlineStop' = TRUE
          /\ UNCHANGED <<vis, batchesStarted>>
     ELSE LET batch == Slice(uniqueLinks, i, i + CONCURRENT_TABS)
          IN  /\ vis' = [k \in Slots |->
                           IF k <= Len(batch)
                           THEN [pc |-> "newPage", link |-> batch[k], result |-> <<>>]
                           ELSE NoVisit]
              /\ batchesStarted' = batchesStarted + 1
              /\ pc' = "batchRun"
              /\ UNCHANGED deadlineStop
  /\ UNCHANGED <<rawUrl, dom, tickMs, opAge, socials, openTabs, baseUrl, domain, browser,
                 browserCloseCalls,
                 homeTab, pageUrl, homeContent, discoveredLinks, uniqueLinks,
                 i, subpageContents, outcome, now, timer, response, faults,
                 tabsOpened, okLinks,
                 failedLinks, newPageFailures, failedFrom>>

\* An awaited operation of a visit fails: an injected fault, or the browser is gone.
OpFails ==
  \/ /\ CanFault
     /\ faults' = faults + 1
  \/ /\ browser # "open"
     /\ faults' = faults

\* const page = await context.newPage()   (outside the try of the visit)
VisitNewPage(k) ==
  /\ vis[k].pc = "newPage"
  /\ \/ /\ browser = "open"
        /\ vis' = [vis EXCEPT ![k].pc = "goto"]
        /\ tabsOpened' = tabsOpened + 1
        /\ openTabs' = openTabs + 1
        /\ UNCHANGED <<faults, newPageFailures>>
     \/ /\ OpFails
        /\ vis' = [vis EXCEPT ![k].pc = "rejected"]
        /\ newPageFailures' = newPageFailures + 1
        /\ UNCHANGED <<tabsOpened, openTabs>>
  /\ UNCHANGED <<rawUrl, dom, tickMs, opAge, socials, batchesStarted, deadlineStop,
                 pc, baseUrl,
                 domain, browser, browserCloseCalls, homeTab, pageUrl,
                 homeContent, discoveredLinks, uniqueLinks, i,
                 subpageContents, outcome, now, timer, response, okLinks,
                 failedLinks, failedFrom>>

\* Variant: a navigation failure is not caught and rejects the visit.
VisitGotoNoCatch(k) ==
  /\ vis[k].pc = "goto"
  /\ \/ /\ browser = "open"
        /\ vis' = [vis EXCEPT ![k].pc = "idle"]
        /\ UNCHANGED <<faults, failedLinks>>
     \/ /\ OpFails
        /\ vis' = [vis EXCEPT ![k].pc = "rejected"]
        /\ failedLinks' = failedLinks \cup {vis[k].link}
  /\ UNCHANGED <<rawUrl, dom, tickMs, opAge, socials, batchesStarted, deadlineStop, openTabs,
                 pc, baseUrl,
                 domain, browser, browserCloseCalls, homeTab, pageUrl,
                 homeContent, discoveredLinks, uniqueLinks, i,
                 subpageContents, outcome, now, timer, response, tabsOpened,
                 okLinks, newPageFailures, failedFrom>>

\* await page.goto(link, { timeout: 8000 }); a failure is caught: return null.
VisitGoto(k) ==
  /\ vis[k].pc = "goto"
  /\ \/ /\ browser = "open"
        /\ vis' = [vis EXCEPT ![k].pc = "idle"]
        /\ UNCHANGED <<faults, failedLinks>>
     \/ /\ OpFails
        /\ vis' = [vis EXCEPT ![k].pc = "close", ![k].result = <<>>]
        /\ failedLinks' = failedLinks \cup {vis[k].link}
  /\ UNCHANGED <<rawUrl, dom, tickMs, opAge, socials, batchesStarted, deadlineStop, openTabs,
                 pc, baseUrl,
                 domain, browser, browserCloseCalls, homeTab, pageUrl,
                 homeContent, discoveredLinks, uniqueLinks, i,
                 subpageContents, outcome, now, timer, response, tabsOpened,
                 okLinks, newPageFailures, failedFrom>>

\* Variant: a timeout of the network-idle wait is handled as a navigation failure.
VisitIdleNoCatch(k) ==
  /\ vis[k].pc = "idle"
  /\ \/ /\ vis' = [vis EXCEPT ![k].pc = "extract"]
        /\ UNCHANGED <<faults, failedLinks>>
     \/ /\ OpFails
        /\ vis' = [vis EXCEPT ![k].pc = "close", ![k].result = <<>>]
        /\ failedLinks' = failedLinks \cup {vis[k].link}
  /\ UNCHANGED <<rawUrl, dom, tickMs, opAge, socials, batchesStarted, deadlineStop, openTabs,
                 pc, baseUrl,
                 domain, browser, browserCloseCalls, homeTab, pageUrl,
                 homeContent, discoveredLinks, uniqueLinks, i,
                 subpageContents, outcome, now, timer, response, tabsOpened,
                 okLinks, newPageFailures, failedFrom>>

\* await page.waitForLoadState('networkidle', { timeout: 5000 }).catch(() => {})
VisitIdle(k) ==
  /\ vis[k].pc = "idle"
  /\ \/ UNCHANGED faults
     \/ OpFails
  /\ vis' = [vis EXCEPT ![k].pc = "extract"]
  /\ UNCHANGED <<rawUrl, dom, tickMs, opAge, socials, batchesStarted, deadlineStop, openTabs,
                 pc, baseUrl,
                 domain, browser, browserCloseCalls, homeTab, pageUrl,
                 homeContent, discoveredLinks, uniqueLinks, i,
                 subpageContents, outcome, now, timer, response, tabsOpened,
                 okLinks,
                 failedLinks, newPageFailures, failedFrom>>

\* Variant: the visit pushes its record to subpageContents itself.
VisitExtractPushes(k) ==
  /\ vis[k].pc = "extract"
  /\ \/ /\ browser = "open"
        /\ vis' = [vis EXCEPT ![k].pc = "close", ![k].result = <<>>]
        /\ subpageContents' = Append(subpageContents, PageContent(vis[k].link))
        /\ okLinks' = okLinks \cup {vis[k].link}
        /\ UNCHANGED <<faults, failedLinks>>
     \/ /\ OpFails
        /\ vis' = [vis EXCEPT ![k].pc = "close", ![k].result = <<>>]
        /\ failedLinks' = failedLinks \cup {vis[k].link}
        /\ UNCHANGED <<okLinks, subpageContents>>
  /\ UNCHANGED <<rawUrl, dom, tickMs, opAge, socials, batchesStarted, deadlineStop, openTabs,
                 pc, baseUrl,
                 domain, browser, browserCloseCalls, homeTab, pageUrl,
                 homeContent, discoveredLinks, uniqueLinks, i,
                 outcome, now, timer, response, tabsOpened,
                 newPageFailures, failedFrom>>

\* const content = await extractPageContent(page, baseUrl); return content
VisitExtract(k) ==
  /\ vis[k].pc = "extract"
  /\ \/ /\ browser = "open"
        /\ vis' = [vis EXCEPT ![k].pc = "close",
                              ![k].result = << PageContent(vis[k].link) >>]
        /\ okLinks' = okLinks \cup {vis[k].link}
        /\ UNCHANGED <<faults, failedLinks>>
     \/ /\ OpFails
        /\ vis' = [vis EXCEPT ![k].pc = "close", ![k].result = <<>>]
        /\ failedLinks' = failedLinks \cup {vis[k].link}
        /\ UNCHANGED okLinks
  /\ UNCHANGED <<rawUrl, dom, tickMs, opAge, socials, batchesStarted, deadlineStop, openTabs,
                 pc, baseUrl,
                 domain, browser, browserCloseCalls, homeTab, pageUrl,
                 homeContent, discoveredLinks, uniqueLinks, i,
                 subpageContents, outcome, now, timer, response, tabsOpened,
                 newPageFailures, failedFrom>>

\* finally { await page.close().catch(() => {}) }
VisitClose(k) ==
  /\ vis[k].pc = "close"
  /\ \/ UNCHANGED faults
     \/ OpFails
  /\ vis' = [vis EXCEPT ![k].pc = "done"]
  /\ openTabs' = openTabs - 1
  /\ UNCHANGED <<rawUrl, dom, tickMs, opAge, socials, batchesStarted, deadlineStop, pc, baseUrl,
                 domain, browser, browserCloseCalls, homeTab, pageUrl,
                 homeContent, discoveredLinks, uniqueLinks, i,
                 subpageContents, outcome, now, timer, response, tabsOpened,
                 okLinks,
                 failedLinks, newPageFailures, failedFrom>>

RECURSIVE BatchResultsReversed(_, _)
\* Variant: the results of a batch are collected last slot first.
BatchResultsReversed(v, k) ==
  IF k > CONCURRENT_TABS THEN <<>> ELSE BatchResultsReversed(v, k + 1) \o v[k].result

RECURSIVE BatchResults(_, _)
\* batchResults.filter(Boolean), in the order of the batch
BatchResults(v, k) ==
  IF k > CONCURRENT_TABS THEN <<>> ELSE v[k].result \o BatchResults(v, k + 1)

\* Variant: the loop goes on as soon as one visit of the batch has ended.
BatchJoinEarly ==
  /\ pc = "batchRun"
  /\ \E k \in Slots : vis[k].pc = "done"
  /\ \A k \in Slots : vis[k].pc # "rejected"
  /\ subpageContents' = subpageContents \o BatchResults(vis, 1)
  /\ i' = i + CONCURRENT_TABS
  /\ vis' = [k \in Slots |-> NoVisit]
  /\ pc' = "batchCheck"
  /\ UNCHANGED <<rawUrl, dom, tickMs, opAge, socials, batchesStarted, deadlineStop, openTabs,
                 baseUrl, domain,
                 browser, browserCloseCalls, homeTab, pageUrl, homeContent,
                 discoveredLinks, uniqueLinks, outcome, now, timer, response,
                 faults, tabsOpened, okLinks,
                 failedLinks, newPageFailures, failedFrom>>

\* Promise.all fulfils: subpageContents.push(...batchResults.filter(Boolean)); i += CONCURRENT_TABS
BatchJoin ==
  /\ pc = "batchRun"
  /\ \A k \in Slots : vis[k].pc \in {"off", "done"}
  /\ subpageContents' = subpageContents \o BatchResults(vis, 1)
  /\ i' = i + CONCURRENT_TABS
  /\ vis' = [k \in Slots |-> NoVisit]
  /\ pc' = "batchCheck"
  /\ UNCHANGED <<rawUrl, dom, tickMs, opAge, socials, batchesStarted, deadlineStop, openTabs,
                 baseUrl, domain,
                 browser, browserCloseCalls, homeTab, pageUrl, homeContent,
                 discoveredLinks, uniqueLinks, outcome, now, timer, response,
                 faults, tabsOpened, okLinks,
                 failedLinks, newPageFailures, failedFrom>>

\* Promise.all rejects as soon as one visit rejects; the other visits go on.
BatchReject ==
  /\ pc = "batchRun"
  /\ \E k \in Slots : vis[k].pc = "rejected"
  /\ Throw(MsgPlaywright)
  /\ UNCHANGED <<rawUrl, dom, tickMs, opAge, socials, batchesStarted, deadlineStop, openTabs,
                 baseUrl, domain,
                 browser, browserCloseCalls, homeTab, pageUrl, homeContent,
                 discoveredLinks, uniqueLinks, i, vis, subpageContents, now,
                 timer, response, faults, tabsOpened,
                 okLinks, failedLinks, newPageFailures>>

(***************************************************************************)
(* deepCrawl, step 4: the report; the finally block; /harvest              *)
(***************************************************************************)
\* Variant: global.emails is the concatenation of the pages' lists.
RECURSIVE GlobalEmailsConcat(_, _)
GlobalEmailsConcat(allPages, globalEmails) ==
  IF allPages = <<>> THEN globalEmails
  ELSE GlobalEmailsConcat(Tail(allPages), globalEmails \o Head(allPages).emails)

\* allPages.forEach(page => page.emails.forEach(e => globalEmails.add(e)))
RECURSIVE GlobalEmails(_, _)
GlobalEmails(allPages, globalEmails) ==
  IF allPages = <<>> THEN globalEmails
  ELSE CHOOSE all \in
         { GlobalEmails(Tail(allPages), added) :
             added \in { Dedup(Head(allPages).emails, globalEmails) } } : TRUE

\* allPages.forEach(page => page.phones.forEach(p => globalPhones.add(p)))
RECURSIVE GlobalPhones(_, _)
GlobalPhones(allPages, globalPhones) ==
  IF allPages = <<>> THEN globalPhones
  ELSE CHOOSE all \in
         { GlobalPhones(Tail(allPages), added) :
             added \in { Dedup(Head(allPages).phones, globalPhones) } } : TRUE

\* allPages.reduce((sum, p) => sum + p.images.length, 0)
RECURSIVE TotalImages(_)
TotalImages(allPages) ==
  IF allPages = <<>> THEN 0
  ELSE Len(Head(allPages).images) + TotalImages(Tail(allPages))

\* Variant: pagesVisited counts the visits attempted.
BuildReportAttempted(allPages) ==
  [domain |-> domain,
   global |-> [emails |-> GlobalEmails(allPages, <<>>),
               phones |-> GlobalPhones(allPages, <<>>),
               socials |-> socials],
   pages |-> [n \in 1..Len(allPages) |->
               [url |-> allPages[n].url, images |-> ReportImages(allPages[n].images)]],
   pagesVisited |-> 1 + tabsOpened,
   totalImages |-> TotalImages(allPages)]

\* const result = { domain, ..., pages: allPages.map(...), metadata: { pagesVisited: allPages.length, ... } }
BuildReport(allPages) ==
  [domain |-> domain,
   global |-> [emails |-> GlobalEmails(allPages, <<>>),
               phones |-> GlobalPhones(allPages, <<>>),
               socials |-> socials],
   pages |-> [n \in 1..Len(allPages) |->
               [url |-> allPages[n].url, images |-> ReportImages(allPages[n].images)]],
   pagesVisited |-> Len(allPages),
   totalImages |-> TotalImages(allPages)]

Aggregate ==
  /\ pc = "aggregate"
  /\ outcome' = [kind |-> "return", msg |-> <<>>,
                 report |-> << BuildReport(homeContent \o subpageContents) >>]
  /\ pc' = "finally"
  /\ UNCHANGED <<rawUrl, dom, tickMs, opAge, socials, batchesStarted, deadlineStop, openTabs,
                 baseUrl, domain,
                 browser, browserCloseCalls, homeTab, pageUrl, homeContent,
                 discoveredLinks, uniqueLinks, i, vis, subpageContents, now,
                 timer, response, faults, tabsOpened, okLinks,
                 failedLinks, newPageFailures, failedFrom>>

MsgHarvestFailed ==
  <<"H","a","r","v","e","s","t"," ","f","a","i","l","e","d">>

\* What /harvest sends when the promise of deepCrawl settles with o.
ResponseOf(o) ==
  IF o.kind = "return"
  THEN [status |-> 200, error |-> <<>>, result |-> o.report]
  ELSE LET message == IF o.msg # <<>> THEN o.msg ELSE MsgHarvestFailed
       IN  [status |-> StatusOf(message), error |-> message, result |-> <<>>]

\* Variant: the settlement of deepCrawl answers even after the timer has.
DeepCrawlSettlesNoRace ==
  /\ pc' = "settled"
  /\ timer' = IF timer = "armed" THEN "cleared" ELSE timer
  /\ response' = ResponseOf(outcome)

\* The promise of deepCrawl settles: Promise.race of withTimeout takes it only
\* if the timer has not rejected the race before.
DeepCrawlSettles ==
  /\ pc' = "settled"
  /\ IF response.status = 0
     THEN /\ timer' = "cleared"
          /\ response' = ResponseOf(outcome)
     ELSE UNCHANGED <<timer, response>>

\* Variant: the finally block calls close() without testing for a browser.
FinallyAlwaysCloses ==
  /\ pc = "finally"
  /\ browser' = "closed"
  /\ browserCloseCalls' = browserCloseCalls + 1
  /\ pc' = "closing"
  /\ UNCHANGED <<rawUrl, dom, tickMs, opAge, socials, batchesStarted, deadlineStop, openTabs,
                 baseUrl, domain, timer, response,
                 homeTab, pageUrl, homeContent, discoveredLinks, uniqueLinks,
                 i, vis, subpageContents, outcome, now, faults, tabsOpened,
                 okLinks,
                 failedLinks, newPageFailures, failedFrom>>

\* finally { if (browser) { ... await browser.close() ... } }
Finally ==
  /\ pc = "finally"
  /\ IF browser # "none"
     THEN /\ browser' = "closed"
          /\ browserCloseCalls' = browserCloseCalls + 1
          /\ pc' = "closing"
          /\ UNCHANGED <<timer, response>>
     ELSE /\ DeepCrawlSettles
          /\ UNCHANGED <<browser, browserCloseCalls>>
  /\ UNCHANGED <<rawUrl, dom, tickMs, opAge, socials, batchesStarted, deadlineStop, openTabs,
                 baseUrl, domain,
                 homeTab, pageUrl, homeContent, discoveredLinks, uniqueLinks,
                 i, vis, subpageContents, outcome, now, faults, tabsOpened,
                 okLinks,
                 failedLinks, newPageFailures, failedFrom>>

\* browser.close() returns or raises (the error is caught and logged).
BrowserClosed ==
  /\ pc = "closing"
  /\ \/ UNCHANGED faults
     \/ /\ CanFault
        /\ faults' = faults + 1
  /\ DeepCrawlSettles
  /\ UNCHANGED <<rawUrl, dom, tickMs, opAge, socials, batchesStarted, deadlineStop, openTabs,
                 baseUrl, domain,
                 browser, browserCloseCalls, homeTab, pageUrl, homeContent,
                 discoveredLinks, uniqueLinks, i, vis, subpageContents,
                 outcome, now, tabsOpened, okLinks,
                 failedLinks, newPageFailures, failedFrom>>

\* Variant: the timer is never cleared and its handler answers by itself.
TimerFiresUncleared ==
  /\ timer \in {"armed", "cleared"}
  /\ Elapsed >= HARVEST_TIMEOUT_MS
  /\ timer' = "fired"
  /\ response' = ResponseOf([kind |-> "throw", msg |-> MsgHarvestTimeout, report |-> <<>>])
  /\ UNCHANGED <<rawUrl, dom, tickMs, opAge, socials, batchesStarted, deadlineStop, openTabs,
                 pc, baseUrl,
                 domain, browser, browserCloseCalls, homeTab, pageUrl,
                 homeContent, discoveredLinks, uniqueLinks, i, vis,
                 subpageContents, outcome, now, faults, tabsOpened, okLinks,
                 failedLinks, newPageFailures,
                 failedFrom>>

\* The timer of withTimeout fires and rejects the race.
TimerFires ==
  /\ timer = "armed"
  /\ Elapsed >= HARVEST_TIMEOUT_MS
  /\ timer' = "fired"
  /\ response' = ResponseOf([kind |-> "throw", msg |-> MsgHarvestTimeout, report |-> <<>>])
  /\ UNCHANGED <<rawUrl, dom, tickMs, opAge, socials, batchesStarted, deadlineStop, openTabs,
                 pc, baseUrl,
                 domain, browser, browserCloseCalls, homeTab, pageUrl,
                 homeContent, discoveredLinks, uniqueLinks, i, vis,
                 subpageContents, outcome, now, faults, tabsOpened, okLinks,
                 failedLinks, newPageFailures,
                 failedFrom>>

\* Time passes while deepCrawl awaits.
Tick ==
  /\ pc \notin {"init", "settled"}
  /\ ~(pc = "finally" /\ browser = "none")
  /\ now < MaxTicks
  /\ Elapsed < HARVEST_TIMEOUT_MS
  /\ now' = now + 1
  /\ UNCHANGED <<rawUrl, dom, tickMs, opAge, socials, batchesStarted, deadlineStop, openTabs,
                 pc, baseUrl,
                 domain, browser, browserCloseCalls, homeTab, pageUrl,
                 homeContent, discoveredLinks, uniqueLinks, i, vis,
                 subpageContents, outcome, timer, response, faults,
                 tabsOpened, okLinks,
                 failedLinks, newPageFailures, failedFrom>>

(***************************************************************************)
(* Timed runs: the clock advances in ticks of FineTickMs, and a navigation *)
(* or a network-idle wait never lasts longer than its timeout.             *)
(***************************************************************************)
\* The operation a flow awaits: position and link.
\* deepCrawl at Promise.all awaits as long as no visit has rejected and one
\* is still running; otherwise its continuation is due ("batchSettled").
CurOp(f) ==
  IF f # 0 THEN <<vis[f].pc, vis[f].link>>
  ELSE IF pc = "batchRun" /\ (\/ (\E k \in Slots : vis[k].pc = "rejected")
                               \/ (\A j \in Slots : vis[j].pc \in {"off", "done"}))
  THEN <<"batchSettled", <<>>>>
  ELSE <<pc, <<>>>>

\* timeout: 10000 (homePage.goto, waitForLoadState), timeout: 8000 (page.goto),
\* timeout: 5000 (waitForLoadState of a subpage); -1 for an operation without one.
OpTimeoutMs(op) ==
  IF op[1] \in {"homeGoto", "homeIdle"} THEN HOME_TIMEOUT_MS
  ELSE IF op[1] = "goto" THEN NAV_TIMEOUT_MS
  ELSE IF op[1] = "idle" THEN IDLE_TIMEOUT_MS
  ELSE -1

\* Steps taken to be immediate: the page operations without a timeout of
\* their own (newPage, the evaluations, close), the synchronous code between
\* two awaits and browser.close. Time passes in the start of the browser and
\* in the navigations and network-idle waits.
Immediate(op) ==
  op[1] \in {"homeNewPage", "homeExtract", "discover", "socials", "homeClose",
             "batchCheck", "batchSettled", "aggregate", "finally", "closing",
             "newPage", "extract", "close"}

AgeAfterTick(f) == IF opAge[f].op = CurOp(f) THEN opAge[f].age + 1 ELSE 1

\* One tick passes: allowed when no flow is at an immediate step and no
\* awaited operation would outlive its timeout.
TimedTick ==
  /\ pc \notin {"init", "settled"}
  /\ Elapsed < HARVEST_TIMEOUT_MS + tickMs
  /\ \A f \in Flows :
       /\ ~Immediate(CurOp(f))
       /\ OpTimeoutMs(CurOp(f)) >= 0 => AgeAfterTick(f) * tickMs <= OpTimeoutMs(CurOp(f))
  /\ now' = now + 1
  /\ opAge' = [f \in Flows |->
                 IF OpTimeoutMs(CurOp(f)) >= 0
                 THEN [op |-> CurOp(f), age |-> AgeAfterTick(f)]
                 ELSE [op |-> NoOp, age |-> 0]]
  /\ UNCHANGED <<rawUrl, dom, socials, tickMs, batchesStarted, deadlineStop, openTabs,
                 pc, baseUrl,
                 domain, browser, browserCloseCalls, homeTab, pageUrl,
                 homeContent, discoveredLinks, uniqueLinks, i, vis,
                 subpageContents, outcome, timer, response, faults,
                 tabsOpened, okLinks,
                 failedLinks, newPageFailures, failedFrom>>

Next ==
  \/ HarvestStart
  \/ Launch
  \/ NewContext
  \/ HomeNewPage
  \/ HomeGoto
  \/ HomeIdle
  \/ HomeExtract
  \/ Discover
  \/ Socials
  \/ HomeClose
  \/ BatchCheck
  \/ \E k \in Slots : VisitNewPage(k)
  \/ \E k \in Slots : VisitGoto(k)
  \/ \E k \in Slots : VisitIdle(k)
  \/ \E k \in Slots : VisitExtract(k)
  \/ \E k \in Slots : VisitClose(k)
  \/ BatchJoin
  \/ BatchReject
  \/ Aggregate
  \/ Finally
  \/ BrowserClosed
  \/ TimerFires
  \/ Tick

Spec == Init /\ [][Next]_vars

\* The steps of deepCrawl and of its visits: everything but the clock and
\* the timer.
Progress ==
  \/ HarvestStart
  \/ Launch
  \/ NewContext
  \/ HomeNewPage
  \/ HomeGoto
  \/ HomeIdle
  \/ HomeExtract
  \/ Discover
  \/ Socials
  \/ HomeClose
  \/ BatchCheck
  \/ \E k \in Slots : VisitNewPage(k)
  \/ \E k \in Slots : VisitGoto(k)
  \/ \E k \in Slots : VisitIdle(k)
  \/ \E k \in Slots : VisitExtract(k)
  \/ \E k \in Slots : VisitClose(k)
  \/ BatchJoin
  \/ BatchReject
  \/ Aggregate
  \/ Finally
  \/ BrowserClosed

\* Every awaited operation eventually returns or raises, and the event loop
\* runs every continuation that is due.
\* A rejected request and a request for a site with FairLinks subpages.
FairInit ==
  /\ rawUrl \in {<<" ">>, <<"http://", "www.x.com", "/", "a">>}
  /\ dom = DomMany(FairLinks)
  /\ socials = <<>>
  /\ tickMs = TickMs
  /\ opAge = NoAge
  /\ pc = "init"
  /\ baseUrl = <<>>
  /\ domain = ""
  /\ browser = "none"
  /\ browserCloseCalls = 0
  /\ homeTab = "none"
  /\ pageUrl = <<>>
  /\ homeContent = <<>>
  /\ discoveredLinks = <<>>
  /\ uniqueLinks = <<>>
  /\ i = 0
  /\ vis = [k \in Slots |-> NoVisit]
  /\ subpageContents = <<>>
  /\ outcome = NoOutcome
  /\ now = 0
  /\ timer = "none"
  /\ response = NoResponse
  /\ faults = 0
  /\ tabsOpened = 0
  /\ okLinks = {}
  /\ failedLinks = {}
  /\ newPageFailures = 0
  /\ failedFrom = ""
  /\ batchesStarted = 0
  /\ deadlineStop = FALSE
  /\ openTabs = 0

FairSpec == FairInit /\ [][Next]_vars /\ WF_vars(Progress)

\* deepCrawl called on its own for a site with MaxLinks subpages, more than
\* MAX_PAGES: no clock and no outer timer, so that no batch is held back by
\* the deadline.
TermInit ==
  /\ rawUrl = <<"http://", "www.x.com", "/", "a">>
  /\ dom = DomMany(MaxLinks)
  /\ socials = <<>>
  /\ tickMs = TickMs
  /\ opAge = NoAge
  /\ pc = "init"
  /\ baseUrl = <<>>
  /\ domain = ""
  /\ browser = "none"
  /\ browserCloseCalls = 0
  /\ homeTab = "none"
  /\ pageUrl = <<>>
  /\ homeContent = <<>>
  /\ discoveredLinks = <<>>
  /\ uniqueLinks = <<>>
  /\ i = 0
  /\ vis = [k \in Slots |-> NoVisit]
  /\ subpageContents = <<>>
  /\ outcome = NoOutcome
  /\ now = 0
  /\ timer = "none"
  /\ response = NoResponse
  /\ faults = 0
  /\ tabsOpened = 0
  /\ okLinks = {}
  /\ failedLinks = {}
  /\ newPageFailures = 0
  /\ failedFrom = ""
  /\ batchesStarted = 0
  /\ deadlineStop = FALSE
  /\ openTabs = 0

TermSpec == TermInit /\ [][Progress]_vars /\ WF_vars(Progress)

\* One request for a site with TimedLinks subpages, on the fine clock.
TimedLinks == 2

TimedInit ==
  /\ rawUrl = <<"x.com">>
  /\ dom = DomMany(TimedLinks)
  /\ socials = <<>>
  /\ tickMs = FineTickMs
  /\ opAge = NoAge
  /\ pc = "init"
  /\ baseUrl = <<>>
  /\ domain = ""
  /\ browser = "none"
  /\ browserCloseCalls = 0
  /\ homeTab = "none"
  /\ pageUrl = <<>>
  /\ homeContent = <<>>
  /\ discoveredLinks = <<>>
  /\ uniqueLinks = <<>>
  /\ i = 0
  /\ vis = [k \in Slots |-> NoVisit]
  /\ subpageContents = <<>>
  /\ outcome = NoOutcome
  /\ now = 0
  /\ timer = "none"
  /\ response = NoResponse
  /\ faults = 0
  /\ tabsOpened = 0
  /\ okLinks = {}
  /\ failedLinks = {}
  /\ newPageFailures = 0
  /\ failedFrom = ""
  /\ batchesStarted = 0
  /\ deadlineStop = FALSE
  /\ openTabs = 0

TimedNext ==
  \/ HarvestStart
  \/ Launch
  \/ NewContext
  \/ HomeNewPage
  \/ HomeGoto
  \/ HomeIdle
  \/ HomeExtract
  \/ Discover
  \/ Socials
  \/ HomeClose
  \/ BatchCheck
  \/ \E k \in Slots : VisitNewPage(k)
  \/ \E k \in Slots : VisitGoto(k)
  \/ \E k \in Slots : VisitIdle(k)
  \/ \E k \in Slots : VisitExtract(k)
  \/ \E k \in Slots : VisitClose(k)
  \/ BatchJoin
  \/ BatchReject
  \/ Aggregate
  \/ Finally
  \/ BrowserClosed
  \/ TimerFires
  \/ TimedTick

TimedSpec == TimedInit /\ [][TimedNext]_vars

(***************************************************************************)
(* The seed phase alone, on more inputs: from the request to the visit     *)
(* queue (normalizeUrl, the seed navigation, discoverLinks, uniqueLinks).  *)
(***************************************************************************)
SeedInit ==
  /\ \E request \in SeedRequests :
       /\ rawUrl = request[1]
       /\ dom = request[2]
  /\ socials = <<>>
  /\ tickMs = TickMs
  /\ opAge = NoAge
  /\ pc = "init"
  /\ baseUrl = <<>>
  /\ domain = ""
  /\ browser = "none"
  /\ browserCloseCalls = 0
  /\ homeTab = "none"
  /\ pageUrl = <<>>
  /\ homeContent = <<>>
  /\ discoveredLinks = <<>>
  /\ uniqueLinks = <<>>
  /\ i = 0
  /\ vis = [k \in Slots |-> NoVisit]
  /\ subpageContents = <<>>
  /\ outcome = NoOutcome
  /\ now = 0
  /\ timer = "none"
  /\ response = NoResponse
  /\ faults = 0
  /\ tabsOpened = 0
  /\ okLinks = {}
  /\ failedLinks = {}
  /\ newPageFailures = 0
  /\ failedFrom = ""
  /\ batchesStarted = 0
  /\ deadlineStop = FALSE
  /\ openTabs = 0

SeedNext ==
  \/ HarvestStart
  \/ Launch
  \/ NewContext
  \/ HomeNewPage
  \/ HomeGoto
  \/ HomeIdle
  \/ HomeExtract
  \/ Discover
  \/ Socials
  \/ HomeClose

SeedSpec == SeedInit /\ [][SeedNext]_vars

(***************************************************************************)
(* Properties                                                              *)
(***************************************************************************)
Returned == outcome.kind = "return"

Report == outcome.report[1]

\* URLs of the subpage records of the report (the seed record is pages[1]).
SubpageUrls == {Report.pages[n].url : n \in 2..Len(Report.pages)}

\* C1: the seed URL never appears in the visit queue: no queued link is the
\* seed URL, requested or final, with fragment and trailing slash stripped.
C1_SeedNeverQueued ==
  \A n \in 1..Len(uniqueLinks) :
    /\ uniqueLinks[n] # CleanUrl(baseUrl)
    /\ pageUrl # <<>> => uniqueLinks[n] # CleanUrl(pageUrl)

\* C2: a report of deepCrawl has at least 1 and at most 1 + MAX_PAGES pages.
C2_PagesLengthBounded ==
  Returned => Len(Report.pages) >= 1 /\ Len(Report.pages) <= 1 + MAX_PAGES

C2_Witness ==
  /\ Returned
  /\ Len(Report.pages) = 1 + MAX_PAGES
  /\ Len(discoveredLinks) > MAX_PAGES

\* C3: pagesVisited is 1 plus the number of subpage visits that produced a
\* record, which is the length of pages; failed and skipped links do not count.
C3_PagesVisitedCountsRecords ==
  Returned =>
    /\ Report.pagesVisited = 1 + Cardinality(okLinks)
    /\ Report.pagesVisited = Len(Report.pages)

C3_Witness ==
  /\ Returned
  /\ failedLinks # {}
  /\ okLinks # {}
  /\ deadlineStop
  /\ Report.pagesVisited < 1 + tabsOpened
  /\ tabsOpened < Len(uniqueLinks)

\* C4: a subpage whose navigation or extraction fails leaves no record in
\* pages and raises nothing to the caller of deepCrawl, and the visits that
\* load keep their records.
C4_FailedSubpageAbsorbed ==
  /\ Returned => failedLinks \cap SubpageUrls = {} /\ okLinks \subseteq SubpageUrls
  /\ failedFrom \in {"batchCheck", "batchRun", "aggregate"} => newPageFailures > 0
  /\ (newPageFailures = 0 /\ homeTab = "closed" /\ pc \in {"finally", "closing", "settled"})
       => Returned

\* A failed visit and a successful one in the same batch, and a report.
C4_Witness ==
  /\ Returned
  /\ \E m, n \in 1..Len(uniqueLinks) :
       /\ uniqueLinks[m] \in failedLinks
       /\ uniqueLinks[n] \in okLinks
       /\ (m - 1) \div CONCURRENT_TABS = (n - 1) \div CONCURRENT_TABS

\* C5: once the seed session is closed (SeedExtracted), deepCrawl never ends
\* in failure.
C5_NoFailureAfterSeedExtracted ==
  homeTab = "closed" => outcome.kind # "throw"

\* C6: a batch starts only while the elapsed time is at most 45 s - 10 s; once
\* the loop has stopped on the deadline no batch starts, the records of the
\* completed batches are in the report, and deepCrawl returns.
C6_DeadlineStopsBatches ==
  /\ [][batchesStarted' # batchesStarted
          => Elapsed <= HARVEST_TIMEOUT_MS - SAFETY_MARGIN_MS]_vars
  /\ [][deadlineStop => deadlineStop' /\ batchesStarted' = batchesStarted]_vars
  /\ [](deadlineStop /\ pc \in {"finally", "closing", "settled"} =>
          /\ Returned
          /\ okLinks \subseteq SubpageUrls
          /\ Len(Report.pages) = 1 + Len(subpageContents))

\* The loop stopped on the deadline after a completed batch, links left over.
C6_Witness ==
  /\ Returned
  /\ deadlineStop
  /\ okLinks # {}
  /\ batchesStarted >= 1
  /\ i < Len(uniqueLinks)

\* C7: if the deadline is exhausted at the check before the first batch, no
\* batch starts and the report has exactly the seed page, pagesVisited = 1.
C7_DeadlineBeforeFirstBatch ==
  /\ [][(/\ pc = "batchCheck"
         /\ batchesStarted = 0
         /\ Elapsed > HARVEST_TIMEOUT_MS - SAFETY_MARGIN_MS
         /\ pc' # pc)
          => pc' = "aggregate" /\ batchesStarted' = 0 /\ subpageContents' = <<>>]_vars
  /\ [](batchesStarted = 0 /\ pc \in {"finally", "closing", "settled"}
         /\ homeTab = "closed" =>
          /\ Returned
          /\ Len(Report.pages) = 1
          /\ Report.pages[1].url = pageUrl
          /\ Report.pagesVisited = 1)

C7_Witness ==
  /\ Returned
  /\ deadlineStop
  /\ batchesStarted = 0
  /\ Len(uniqueLinks) = MAX_PAGES
  /\ Report.pagesVisited = 1

\* C8: a failed seed navigation ends deepCrawl with 'Target site unreachable',
\* without a subpage tab or a report, and /harvest answers 502.
C8_SeedUnreachable ==
  failedFrom = "homeGoto" =>
    /\ outcome.kind = "throw"
    /\ outcome.msg = MsgUnreachable
    /\ outcome.report = <<>>
    /\ tabsOpened = 0
    /\ batchesStarted = 0
    /\ response.status # 0 => response.status = 502 /\ response.result = <<>>

C8_Witness ==
  /\ failedFrom = "homeGoto"
  /\ pc = "settled"
  /\ response.status = 502
  /\ response.error = MsgUnreachable

\* C9: when the timer of /harvest fires before deepCrawl has settled, the
\* response is the Timeout error, whatever deepCrawl did and does afterwards.
C9_OuterTimeoutWins ==
  timer = "fired" =>
    /\ response.status = 502
    /\ response.error = MsgHarvestTimeout
    /\ response.result = <<>>

\* deepCrawl returned a report with subpages after the timer had fired.
C9_Witness ==
  /\ timer = "fired"
  /\ pc = "settled"
  /\ Returned
  /\ okLinks # {}

\* C10: a launched browser is closed exactly once, in the cleanup step, on
\* every exit path.
C10_BrowserClosedOnce ==
  /\ browserCloseCalls <= 1
  /\ browserCloseCalls = 1 => pc \in {"closing", "settled"} /\ browser = "closed"
  /\ pc = "settled" /\ browser # "none" => browserCloseCalls = 1
  /\ browser = "none" => browserCloseCalls = 0

\* The exit path of a throw during the batches.
C10_Witness ==
  /\ pc = "settled"
  /\ failedFrom = "batchRun"
  /\ browserCloseCalls = 1

\* Position of a link in the visit queue (0 if it is not queued).
QueuePos(link) == FirstIndex(uniqueLinks, link)

\* C11: the seed record is first and the subpage records follow in the order
\* of the visit queue, whatever the order in which the visits of a batch end.
C11_PagesInQueueOrder ==
  Returned =>
    /\ Report.pages[1].url = pageUrl
    /\ \A n \in 2..Len(Report.pages) : QueuePos(Report.pages[n].url) > 0
    /\ \A m, n \in 2..Len(Report.pages) :
         m < n => QueuePos(Report.pages[m].url) < QueuePos(Report.pages[n].url)

\* A report with subpages of two batches or more, after a visit of a batch
\* failed: the records are a proper subsequence of the queue.
C11_Witness ==
  /\ Returned
  /\ batchesStarted >= 2
  /\ Len(Report.pages) >= 3
  /\ failedLinks # {}

\* The links of the page that the scenario of C12 rules out, for a seed on x.com.
ScenarioRuledOut ==
  {CleanUrl(ResolveUrl(DomScenario[n], pageUrl).href) : n \in 1..5}

LinkOnTarget(link) ==
  /\ ParseUrl(link).ok
  /\ ParseUrl(link).hostname = domain
  /\ ToLower(link[Len(link)]) \notin DeniedExts

\* C12: every link of the discovered set and of the visit queue has the
\* hostname of the crawl target (the hostname of the normalized seed URL, kept
\* in domain) and no denylisted extension; for the page with 15 internal, 2
\* external and 3 pdf links the queue has at most MAX_PAGES links, none of them
\* external or a pdf.
C12_LinksOnTargetHost ==
  /\ \A n \in 1..Len(discoveredLinks) : LinkOnTarget(discoveredLinks[n])
  /\ \A n \in 1..Len(uniqueLinks) : LinkOnTarget(uniqueLinks[n])
  /\ (dom = DomScenario /\ domain = "x.com" /\ pc = "batchCheck") =>
       /\ Len(uniqueLinks) <= MAX_PAGES
       /\ \A n \in 1..Len(uniqueLinks) : uniqueLinks[n] \notin ScenarioRuledOut

\* discoverLinks has run on the seed page.
Discovered == pc \in {"socials", "homeClose", "batchCheck"}

\* The anchors of the seed page that discoverLinks keeps, as absolute URLs.
KeptAnchors ==
  {ResolveUrl(dom[n], pageUrl).href :
     n \in {k \in 1..Len(dom) :
              /\ ~SkipHref(dom[k])
              /\ ResolveUrl(dom[k], pageUrl).ok
              /\ ResolveUrl(dom[k], pageUrl).hostname = ParseUrl(pageUrl).hostname
              /\ ~HasDeniedExt(CleanUrl(ResolveUrl(dom[k], pageUrl).href))}}

\* Two absolute URLs that differ only by fragment and by a trailing slash.
SameButFragSlash(a, b) ==
  LET x == StripFragment(a)
      y == StripFragment(b)
  IN  x = y \/ x = y \o <<"/">> \/ y = x \o <<"/">>

\* The URL without its fragment ends in two slashes or more.
EndsInSlashes(a) ==
  LET x == StripFragment(a)
  IN  Len(x) >= 2 /\ x[Len(x)] = "/" /\ x[Len(x) - 1] = "/"

Count(s, e) == Cardinality({n \in 1..Len(s) : s[n] = e})

\* Normalization of a link that is already in the discovered set.
Renormalize(link) == CleanUrl(ResolveUrl(link, pageUrl).href)

\* C13 as claimed: two anchors that differ only by fragment and trailing slash
\* yield one and the same link, present exactly once in the discovered set, and
\* normalizing a link of the discovered set leaves it unchanged.
C13_NormalizationIdempotent ==
  Discovered =>
    /\ \A a, b \in KeptAnchors :
         SameButFragSlash(a, b) =>
           /\ CleanUrl(a) = CleanUrl(b)
           /\ Count(discoveredLinks, CleanUrl(a)) = 1
    /\ \A n \in 1..Len(discoveredLinks) :
         Renormalize(discoveredLinks[n]) = discoveredLinks[n]

\* C13, amended: the same, for the anchors whose URL without fragment does not
\* end in two slashes or more (one trailing slash is removed, not all of them).
C13_IdempotentUnlessDoubleSlash ==
  Discovered =>
    /\ \A a, b \in KeptAnchors :
         (SameButFragSlash(a, b) /\ ~EndsInSlashes(a) /\ ~EndsInSlashes(b)) =>
           /\ CleanUrl(a) = CleanUrl(b)
           /\ Count(discoveredLinks, CleanUrl(a)) = 1
    /\ \A a \in KeptAnchors :
         ~EndsInSlashes(a) => Renormalize(CleanUrl(a)) = CleanUrl(a)

C13_Witness ==
  /\ Discovered
  /\ dom = DomSlashes
  /\ pageUrl = <<"http://", "x.com", "/", "a">>
  /\ <<"http://", "x.com", "/", "a", "/", "#", "frag">> \in KeptAnchors
  /\ Count(discoveredLinks, <<"http://", "x.com", "/", "a">>) = 1

\* An absolute http or https URL: it parses, with one of the two schemes.
IsAbsoluteHttpUrl(url) ==
  /\ ParseUrl(url).ok
  /\ ParseUrl(url).protocol \in {"http:", "https:"}

\* C14: every URL in pages[].images of a report is an absolute http or https
\* URL, never relative and never a data: URI.
C14_ImagesAbsoluteHttp ==
  Returned =>
    \A n \in 1..Len(Report.pages) :
      \A m \in 1..Len(Report.pages[n].images) :
        IsAbsoluteHttpUrl(Report.pages[n].images[m])

\* normalizeUrl threw: deepCrawl failed at its first statement.
Rejected == failedFrom = "init"

\* The trimmed input names a scheme other than http and https.
HasOtherScheme(raw) ==
  Trim(raw) # <<>> /\ Head(Trim(raw)) \in OtherSchemes \cup {FtpScheme}

\* C15: normalizeUrl fails with 'URL is required' on an empty or blank input,
\* prepends https:// to an input without http(s):// prefix, fails with the
\* invalid-URL error when the result does not parse or has another scheme, and
\* otherwise returns an http or https URL; an input with another scheme, such
\* as ftp://host, is rejected.
C15_NormalizeUrlContract ==
  pc # "init" =>
    /\ Trim(rawUrl) = <<>> => (Rejected /\ outcome.msg = MsgUrlRequired)
    /\ (Rejected /\ Trim(rawUrl) # <<>>) => outcome.msg \in {MsgInvalidUrl, MsgOnlyHttp}
    /\ HasOtherScheme(rawUrl) => Rejected
    /\ ~Rejected =>
         /\ IsAbsoluteHttpUrl(baseUrl)
         /\ baseUrl[1] = (IF Head(Trim(rawUrl)) \in Schemes THEN Head(Trim(rawUrl))
                          ELSE "https://")

\* No visit of the current batch is in flight.
BatchIdle == \A k \in Slots : vis[k].pc \in {"off", "done", "rejected"}

\* C16: batches are strictly sequential: a batch starts, and so opens its
\* tabs, only when every tab opened for the batches before it has been through
\* its close step, whatever the outcomes of their visits.
C16_BatchesSequential ==
  [][batchesStarted' # batchesStarted =>
       /\ openTabs = 0
       /\ \A k \in Slots : vis[k].pc = "off"]_vars

\* A third batch has tabs open after visits of earlier batches succeeded and failed.
C16_Witness ==
  /\ batchesStarted >= 3
  /\ openTabs > 0
  /\ okLinks # {}
  /\ failedLinks # {}

\* Tabs open at the moment: the seed tab and the subpage tabs.
TabsOpen == (IF homeTab = "open" THEN 1 ELSE 0) + openTabs

\* C17: at every moment at most CONCURRENT_TABS tabs are open, and the seed
\* tab is closed before the first subpage tab opens.
C17_AtMostThreeTabs ==
  /\ TabsOpen <= CONCURRENT_TABS
  /\ openTabs > 0 => homeTab = "closed"

\* A full batch of a queue of MAX_PAGES links has all its tabs open.
C17_Witness ==
  /\ Len(uniqueLinks) = MAX_PAGES
  /\ openTabs = CONCURRENT_TABS

\* C18: every tab opened during a crawl, the seed tab included, has been through
\* its own close step when the crawl is over, on every exit path.
C18_EveryTabClosedByOwnStep ==
  (pc = "settled" /\ BatchIdle) => (homeTab # "open" /\ openTabs = 0)

\* C19: a failing close of a tab never raises: it never makes deepCrawl fail,
\* and the record of a page that was extracted is kept through the close step.
C19_CloseNeverRaises ==
  /\ failedFrom # "homeClose"
  /\ \A k \in Slots :
       (vis[k].pc = "done" /\ vis[k].link \in okLinks) => vis[k].result # <<>>

\* C20: a visit of a running batch is never interrupted: the browser is closed
\* only when no visit is in flight.
C20_NoVisitInterrupted ==
  [][(browser = "open" /\ browser' = "closed") => BatchIdle]_vars

\* The visits of the current batch that hold a tab.
TabHolders == {k \in Slots : vis[k].pc \in {"goto", "idle", "extract", "close"}}

\* C21: subpageContents is written only when every visit of the current batch
\* has settled, never while a visit is in flight; and every open subpage tab
\* belongs to exactly one visit in flight.
C21_AccumulatorWrittenAfterBatch ==
  /\ [][subpageContents' # subpageContents =>
          \A k \in Slots : vis[k].pc \in {"off", "done"}]_vars
  /\ [](openTabs = Cardinality(TabHolders))

\* Visits are in flight, each in its own tab, while the accumulator holds the
\* records of an earlier batch.
C21_Witness ==
  /\ subpageContents # <<>>
  /\ Cardinality(TabHolders) = CONCURRENT_TABS
  /\ \E j, k \in TabHolders : vis[j].pc # vis[k].pc

\* C22: the network-idle wait, timed out or not, is followed by the extraction
\* of the page, for the seed and for a subpage, and leaves no failure behind;
\* deepCrawl fails with the navigation error only from the seed navigation.
C22_IdleTimeoutAbsorbed ==
  /\ [][/\ (pc = "homeIdle" /\ pc' # pc) => (pc' = "homeExtract" /\ outcome' = outcome)
        /\ \A k \in Slots :
             (vis[k].pc = "idle" /\ vis'[k].pc # "idle") =>
               (vis'[k].pc = "extract" /\ failedLinks' = failedLinks)]_vars
  /\ []((outcome.kind = "throw" /\ outcome.msg = MsgUnreachable) => failedFrom = "homeGoto")

\* The first subpage has its record after two faults, which can only be the
\* timeouts of the network-idle waits of the seed and of this subpage.
C22_Witness ==
  /\ faults = 2
  /\ homeContent # <<>>
  /\ batchesStarted = 1
  /\ tabsOpened = 1
  /\ newPageFailures = 0
  /\ failedLinks = {}
  /\ \E k \in Slots : vis[k].pc = "close" /\ vis[k].result # <<>>

\* The seed URL and its variants by trailing slash.
SeedVariants == {baseUrl, baseUrl \o <<"/">>, CleanUrl(baseUrl)}

\* The discovered links that are not the seed URL, in their order, without duplicates.
Queueable == FilterSeq(Dedup(discoveredLinks, <<>>), SeedVariants)

\* C23: the visit queue is the discovered links minus the seed URL (and its
\* trailing-slash variant), without duplicates, cut to the first MAX_PAGES; a
\* batch is the next CONCURRENT_TABS links of the queue, the batches follow one
\* another in queue order, and no link is visited twice.
C23_QueueAndBatches ==
  /\ pc \in {"batchCheck", "batchRun", "aggregate"} =>
       /\ uniqueLinks = SubSeq(Queueable, 1, Min(MAX_PAGES, Len(Queueable)))
       /\ \A m, n \in 1..Len(uniqueLinks) : uniqueLinks[m] = uniqueLinks[n] => m = n
       /\ i % CONCURRENT_TABS = 0
       /\ i = CONCURRENT_TABS * (batchesStarted - (IF pc = "batchRun" THEN 1 ELSE 0))
  /\ pc = "batchRun" =>
       \A k \in Slots :
         IF i + k <= Len(uniqueLinks)
         THEN vis[k].link = uniqueLinks[i + k]
         ELSE vis[k] = NoVisit
  /\ okLinks \cap failedLinks = {}
  /\ tabsOpened + newPageFailures <= Len(uniqueLinks)
  /\ \A k \in Slots :
       vis[k].pc \in {"newPage", "goto", "idle"} => vis[k].link \notin okLinks \cup failedLinks

Range(s) == {s[n] : n \in 1..Len(s)}

NoDuplicates(s) == \A m, n \in 1..Len(s) : s[m] = s[n] => m = n

\* The records aggregated by a report: the seed record and the subpage records.
AggregatedPages == homeContent \o subpageContents

\* Anchors of the seed page that extractSocials classifies, as resolved URLs.
SeedSocialUrls ==
  {ResolveUrl(dom[n], pageUrl).href :
     n \in {m \in 1..Len(dom) : /\ dom[m] # <<>>
                                /\ ResolveUrl(dom[m], pageUrl).ok
                                /\ PlatformOf(ResolveUrl(dom[m], pageUrl).href) # ""}}

\* C24: in every report global.emails is the union, without duplicates, of the
\* emails of all aggregated pages (the seed and the successful subpages),
\* global.phones is the same for phones, and global.socials holds exactly the
\* social links of the seed page's anchors, one entry per URL.
C24_GlobalContacts ==
  Returned =>
    /\ Range(Report.global.emails) =
         UNION {Range(AggregatedPages[n].emails) : n \in 1..Len(AggregatedPages)}
    /\ NoDuplicates(Report.global.emails)
    /\ Range(Report.global.phones) =
         UNION {Range(AggregatedPages[n].phones) : n \in 1..Len(AggregatedPages)}
    /\ NoDuplicates(Report.global.phones)
    /\ {Report.global.socials[n].url : n \in 1..Len(Report.global.socials)} = SeedSocialUrls
    /\ NoDuplicates([n \in 1..Len(Report.global.socials) |-> Report.global.socials[n].url])
    /\ \A n \in 1..Len(Report.global.socials) :
         Report.global.socials[n].platform = PlatformOf(Report.global.socials[n].url)

\* A report over the seed and at least two subpages that share an address, with
\* a seed page that links the same Facebook profile twice.
C24_Witness ==
  /\ Returned
  /\ Len(AggregatedPages) >= 3
  /\ \E m, n \in 1..Len(AggregatedPages) :
       m # n /\ Range(AggregatedPages[m].emails) \cap Range(AggregatedPages[n].emails) # {}
  /\ \E m, n \in 1..Len(dom) : m # n /\ dom[m] = dom[n] /\ PlatformOf(dom[m]) = "Facebook"
  /\ \E n \in 1..Len(Report.global.socials) : Report.global.socials[n].platform = "Facebook"
  /\ Len(Report.global.emails) >= 3

\* The outer deadline has turned the request into a Timeout error.
TimedOut == timer = "fired" /\ response.status = 502 /\ response.error = MsgHarvestTimeout

\* C25: on the fine clock, where every navigation and network-idle wait ends
\* within its timeout, a crawl that has started a batch (the deadline check
\* passed, at most 35 s elapsed) is never answered with the Timeout error:
\* deepCrawl settles before the 45 s deadline fires.
C25_MarginSuffices == batchesStarted >= 1 => ~TimedOut

\* C26: once the outer timeout has fired, deepCrawl starts no further batch
\* and no tab is opened any more, and its browser is eventually closed.
C26_TimeoutStopsCrawl ==
  /\ [][timer = "fired" =>
          /\ batchesStarted' = batchesStarted
          /\ tabsOpened' = tabsOpened
          /\ homeTab' = "open" => homeTab = "open"]_vars
  /\ (timer = "fired" ~> browser # "open")

TimeoutResponse ==
  ResponseOf([kind |-> "throw", msg |-> MsgHarvestTimeout, report |-> <<>>])

\* C27: every request is answered exactly once. A response that was sent is
\* never replaced; it is the Timeout error when the timer fired first, and
\* otherwise what the settlement of deepCrawl yields, after which the timer
\* stays cleared; and every request is eventually answered.
C27_ExactlyOneResponse ==
  /\ [][/\ response.status # 0 => response' = response
        /\ timer = "cleared" => timer' = "cleared"]_vars
  /\ [](response.status # 0 =>
          \/ timer = "fired" /\ response = TimeoutResponse
          \/ timer = "cleared" /\ pc = "settled" /\ response = ResponseOf(outcome))
  /\ [](response.status = 0 => timer \in {"none", "armed"})
  /\ <>(response.status # 0)

\* The timer fired first and deepCrawl, with a batch under way, rejected
\* afterwards.
C27_Witness ==
  /\ timer = "fired"
  /\ batchesStarted >= 1
  /\ pc = "settled"
  /\ outcome.kind = "throw"
  /\ response = TimeoutResponse

\* Number of batches of a full queue.
MaxBatches == (MAX_PAGES + CONCURRENT_TABS - 1) \div CONCURRENT_TABS

\* Tabs opened since the start of the crawl: the seed tab and the subpage tabs.
TabsEverOpened == (IF homeTab = "none" THEN 0 ELSE 1) + tabsOpened

\* Tabs that exist: a tab lives in its browser and goes with it.
TabsAlive == IF browser = "open" THEN TabsOpen ELSE 0

\* deepCrawl has settled, as Done (a report) or Failed (an error).
Terminated == pc = "settled" /\ outcome.kind \in {"return", "throw"}

\* C28: with every awaited operation returning or raising, every deepCrawl
\* call ends for good as Done or Failed, with no browser and no tab left, and
\* at no time has it started more than 4 batches or opened more than 1 + 10
\* tabs.
C28_TerminatesWithinBounds ==
  /\ <>[](/\ Terminated
          /\ browser # "open"
          /\ TabsAlive = 0
          /\ browser = "none" => TabsOpen = 0)
  /\ [](/\ batchesStarted <= MaxBatches
        /\ MaxBatches = 4
        /\ TabsEverOpened <= 1 + MAX_PAGES)

\* A crawl that ended with a report after 4 batches and 1 + 10 tabs.
C28_Witness ==
  /\ Terminated
  /\ Returned
  /\ browser = "closed"
  /\ batchesStarted = 4
  /\ TabsEverOpened = 11

\* normalizeUrl throws on the raw URL of the request.
InputRejected == ~normalizeUrl(rawUrl).ok

\* C29: when normalizeUrl rejects the input, deepCrawl fails with that error
\* before any time passes, no browser is launched and no tab opened, the
\* finally block calls no browser.close(), and the only answer of /harvest is
\* status 400.
C29_RejectedInputTouchesNothing ==
  InputRejected =>
    /\ pc \in {"init", "finally", "settled"}
    /\ browser = "none"
    /\ browserCloseCalls = 0
    /\ TabsEverOpened = 0
    /\ openTabs = 0
    /\ batchesStarted = 0
    /\ pc # "init" =>
         /\ outcome = [kind |-> "throw", msg |-> normalizeUrl(rawUrl).err, report |-> <<>>]
         /\ failedFrom = "init"
    /\ pc = "finally" => now = 0
    /\ pc = "settled" => response.status = 400 /\ timer = "cleared"
    /\ response.status \in {0, 400}

\* A rejected request that went through the finally block and was answered.
C29_Witness ==
  /\ InputRejected
  /\ pc = "settled"
  /\ failedFrom = "init"
  /\ browser = "none"
  /\ response.status = 400

\* Sum of the lengths of pages[].images of a report.
RECURSIVE ListedImages(_)
ListedImages(pages) ==
  IF pages = <<>> THEN 0
  ELSE Len(Head(pages).images) + ListedImages(Tail(pages))

\* C30: in every report metadata.totalImages is the sum over its pages of the
\* length of pages[].images: the filter of the report removes no image that
\* the total counts.
C30_TotalImagesMatches ==
  Returned => Report.totalImages = ListedImages(Report.pages)

\* A report of several pages that lists images with both http:// and
\* https:// addresses.
C30_Witness ==
  /\ Returned
  /\ Len(Report.pages) >= 3
  /\ Report.totalImages >= 5
  /\ Report.totalImages = ListedImages(Report.pages)
  /\ \E n \in 1..Len(Report.pages) :
       \E m \in 1..Len(Report.pages[n].images) :
         Head(Report.pages[n].images[m]) = "http://"

=============================================================================
